---------------------------- MODULE Spec2Model ----------------------------
(***************************************************************************)
(* The cloner target (cmd/cdi-cloner/clonertarget.go): a worker that reads *)
(* a 16-byte hexadecimal size header from a named pipe, reopens the pipe,  *)
(* relays the payload through a counting reader into a block-device writer *)
(* or an archive extractor, and reports progress from a background         *)
(* goroutine through a Prometheus counter.                                 *)
(*                                                                         *)
(* Three processes are modelled: the main goroutine (pc), the progress     *)
(* goroutine (repPc) and the producer at the other end of the pipe         *)
(* (prodPc).  Bytes are ASCII codes.  float64 values keep their 53-bit     *)
(* significand and their rounding.                                         *)
(***************************************************************************)
EXTENDS Integers, Sequences, FiniteSets, TLC

(***************************************************************************)
(* Bounds of the model.                                                    *)
(***************************************************************************)
MaxPayload == 3
MaxTicks == 3
ChunkLen == 2

(***************************************************************************)
(* Program constants.                                                      *)
(***************************************************************************)
HeaderLen == 16
maxSizeLength == 20

VARIABLES
    namedPipe,      \* value of the -pipedir flag
    markerPresent,  \* whether common.ImporterWriteBlockPath exists
    hdr,            \* bytes the producer sends in the header session
    payload,        \* bytes the producer sends in the payload session
    prodPc,         \* producer position
    prodSent,       \* bytes the producer has written in its current session
    pipe,           \* the named pipe: buffered bytes, write end, session
    pc,             \* main goroutine position
    exitCode,       \* process exit code, -1 while running
    certsDirectory, \* state of the temporary directory
    handles,        \* state of the two file handles main opens on the pipe
    rt,             \* return value of readTotal / collectTotalSize
    total,          \* main's total
    err,            \* main's err
    promReader,     \* the prometheusProgressReader
    invoked,        \* writers invoked so far, in order
    received,       \* bytes Read has returned to the writer
    relayEOF,       \* the relay reader has returned end-of-stream
    repPc,          \* progress goroutine position
    currentProgress,\* updateProgress's local, None outside a tick
    metric,         \* value of the clone_progress counter for ownerUID
    ticks,          \* completed calls of updateProgress
    adds,           \* deltas passed to the counter's Add, in order
    currentWrites,  \* values stored to promReader.Current, in order
    samples,        \* values updateProgress has loaded from Current, each with
                    \* the range of currentWrites since the previous load
    opens,          \* os.OpenFile calls made by the program
    reads           \* Read calls made by the program on the pipe

vars == <<namedPipe, markerPresent, hdr, payload, prodPc, prodSent, pipe, pc,
          exitCode, certsDirectory, handles, rt, total, err, promReader,
          invoked, received, relayEOF, repPc, currentProgress, metric, ticks,
          adds, currentWrites, samples, opens, reads>>

envVars == <<namedPipe, markerPresent, hdr, payload>>
prodVars == <<prodPc, prodSent>>
repVars == <<repPc, currentProgress, metric, ticks, adds, samples>>
relayVars == <<promReader, currentWrites, invoked, received, relayEOF>>

None == "none"

(***************************************************************************)
(* Helpers.                                                                *)
(***************************************************************************)
Min(a, b) == IF a < b THEN a ELSE b

Take(s, n) == SubSeq(s, 1, n)

Drop(s, n) == SubSeq(s, n + 1, Len(s))

Zeros(n) == [i \in 1..n |-> 48]

(***************************************************************************)
(* Natural numbers of any size, for float64 significands: little-endian    *)
(* sequences of limbs below LimbBase, without leading zero limbs.          *)
(***************************************************************************)
LimbBits == 15

LimbBase == 32768

RECURSIVE Pow2(_)
Pow2(k) == IF k = 0 THEN 1 ELSE 2 * Pow2(k - 1)

RECURSIVE IntBitLen(_)
IntBitLen(n) == IF n = 0 THEN 0 ELSE 1 + IntBitLen(n \div 2)

RECURSIVE BTrim(_)
BTrim(a) ==
    IF a # <<>> /\ a[Len(a)] = 0 THEN BTrim(Take(a, Len(a) - 1)) ELSE a

RECURSIVE BFromInt(_)
BFromInt(n) ==
    IF n = 0 THEN <<>> ELSE <<n % LimbBase>> \o BFromInt(n \div LimbBase)

Limb(a, i) == IF i <= Len(a) THEN a[i] ELSE 0

RECURSIVE BAddC(_, _, _, _)
BAddC(a, b, i, carry) ==
    IF i > Len(a) /\ i > Len(b)
    THEN (IF carry = 0 THEN <<>> ELSE <<carry>>)
    ELSE LET s == Limb(a, i) + Limb(b, i) + carry
         IN  <<s % LimbBase>> \o BAddC(a, b, i + 1, s \div LimbBase)

BAdd(a, b) == BAddC(a, b, 1, 0)

RECURSIVE BSubC(_, _, _, _)
BSubC(a, b, i, borrow) ==
    IF i > Len(a) THEN <<>>
    ELSE LET s == Limb(a, i) - Limb(b, i) - borrow
         IN  <<(s + LimbBase) % LimbBase>>
                 \o BSubC(a, b, i + 1, IF s < 0 THEN 1 ELSE 0)

\* a - b, for a >= b
BSub(a, b) == BTrim(BSubC(a, b, 1, 0))

RECURSIVE BCmpFrom(_, _, _)
BCmpFrom(a, b, i) ==
    IF i = 0 THEN 0
    ELSE IF a[i] > b[i] THEN 1
    ELSE IF a[i] < b[i] THEN 0 - 1
    ELSE BCmpFrom(a, b, i - 1)

BCmp(a, b) ==
    IF Len(a) > Len(b) THEN 1
    ELSE IF Len(a) < Len(b) THEN 0 - 1
    ELSE BCmpFrom(a, b, Len(a))

RECURSIVE BMulC(_, _, _, _)
BMulC(a, k, i, carry) ==
    IF i > Len(a) THEN BFromInt(carry)
    ELSE LET s == a[i] * k + carry
         IN  <<s % LimbBase>> \o BMulC(a, k, i + 1, s \div LimbBase)

\* a * k, for k <= LimbBase
BMulSmall(a, k) == BTrim(BMulC(a, k, 1, 0))

RECURSIVE BDivC(_, _, _, _)
BDivC(a, k, i, r) ==
    IF i = 0 THEN <<<<>>, r>>
    ELSE LET cur == r * LimbBase + a[i]
             rest == BDivC(a, k, i - 1, cur % k)
         IN  <<Append(rest[1], cur \div k), rest[2]>>

\* <<a \div k, a % k>>, for 0 < k <= LimbBase
BDivSmall(a, k) ==
    LET qr == BDivC(a, k, Len(a), 0) IN <<BTrim(qr[1]), qr[2]>>

BShl(a, s) ==
    IF a = <<>> THEN <<>>
    ELSE [i \in 1..(s \div LimbBits) |-> 0] \o BMulSmall(a, Pow2(s % LimbBits))

BShr(a, s) ==
    IF s \div LimbBits >= Len(a) THEN <<>>
    ELSE BDivSmall(Drop(a, s \div LimbBits), Pow2(s % LimbBits))[1]

BBitLen(a) ==
    IF a = <<>> THEN 0
    ELSE (Len(a) - 1) * LimbBits + IntBitLen(a[Len(a)])

\* bit i of a, bit 0 the lowest
BBit(a, i) == (Limb(a, i \div LimbBits + 1) \div Pow2(i % LimbBits)) % 2

\* the s lowest bits of a are all zero
BLowZero(a, s) == BShl(BShr(a, s), s) = a

(***************************************************************************)
(* float64: sign, 53-bit significand m and exponent e, value m * 2^e, with *)
(* every operation rounded to nearest, ties to even.  The exponent range   *)
(* is not limited: no value of the program underflows or overflows.        *)
(***************************************************************************)
mantissaBits == 53

Fin(neg, m, e) == [kind |-> "finite", neg |-> neg, m |-> m, e |-> e]

FZero == Fin(FALSE, <<>>, 0)

NaN == [kind |-> "nan", neg |-> FALSE, m |-> <<>>, e |-> 0]

Inf == [kind |-> "inf", neg |-> FALSE, m |-> <<>>, e |-> 0]

\* the value of a float64 local outside its scope
NoProgress == [kind |-> "none", neg |-> FALSE, m |-> <<>>, e |-> 0]

\* (n + f) * 2^e rounded to float64, where 0 <= f < 1 and sticky says f > 0
Round(neg, n, e, sticky) ==
    LET len == BBitLen(n) IN
    IF len = 0 THEN FZero
    ELSE IF len <= mantissaBits
    THEN Fin(neg, BShl(n, mantissaBits - len), e - (mantissaBits - len))
    ELSE LET s == len - mantissaBits
             q == BShr(n, s)
             half == BBit(n, s - 1) = 1
             rest == sticky \/ ~BLowZero(n, s - 1)
             q1 == IF half /\ (rest \/ BBit(q, 0) = 1)
                   THEN BAdd(q, <<1>>) ELSE q
         IN  IF BBitLen(q1) > mantissaBits
             THEN Fin(neg, BShr(q1, 1), e + s + 1)
             ELSE Fin(neg, q1, e + s)

\* float64(n) of an unsigned integer
FromUint(n) == Round(FALSE, BFromInt(n), 0, FALSE)

OneHundred == FromUint(100)

FNeg(a) ==
    IF a.kind = "nan" \/ a = FZero THEN a ELSE [a EXCEPT !.neg = ~@]

FAdd(a, b) ==
    IF a.kind = "nan" \/ b.kind = "nan" THEN NaN
    ELSE IF a.kind = "inf" /\ b.kind = "inf"
    THEN (IF a.neg = b.neg THEN a ELSE NaN)
    ELSE IF a.kind = "inf" THEN a
    ELSE IF b.kind = "inf" THEN b
    ELSE IF a.m = <<>> THEN b
    ELSE IF b.m = <<>> THEN a
    ELSE LET e0 == Min(a.e, b.e)
             x == BShl(a.m, a.e - e0)
             y == BShl(b.m, b.e - e0)
         IN  IF a.neg = b.neg THEN Round(a.neg, BAdd(x, y), e0, FALSE)
             ELSE IF BCmp(x, y) >= 0 THEN Round(a.neg, BSub(x, y), e0, FALSE)
             ELSE Round(b.neg, BSub(y, x), e0, FALSE)

FSub(a, b) == FAdd(a, FNeg(b))

\* |a| against |b|, neither NaN: -1, 0 or 1
FCmpMag(a, b) ==
    IF a.kind = "inf" \/ b.kind = "inf"
    THEN (IF a.kind = b.kind THEN 0 ELSE IF a.kind = "inf" THEN 1 ELSE 0 - 1)
    ELSE IF a.m = <<>> \/ b.m = <<>>
    THEN (IF a.m = b.m THEN 0 ELSE IF a.m = <<>> THEN 0 - 1 ELSE 1)
    ELSE IF a.e # b.e THEN (IF a.e > b.e THEN 1 ELSE 0 - 1)
    ELSE BCmp(a.m, b.m)

\* a against b, neither NaN: -1, 0 or 1
FCmp(a, b) ==
    IF a.neg # b.neg THEN (IF a.neg THEN 0 - 1 ELSE 1)
    ELSE IF a.neg THEN FCmpMag(b, a)
    ELSE FCmpMag(a, b)

FGT(a, b) == a.kind # "nan" /\ b.kind # "nan" /\ FCmp(a, b) = 1

FGE(a, b) == a.kind # "nan" /\ b.kind # "nan" /\ FCmp(a, b) >= 0

\* a * float64(k), for an unsigned integer k <= LimbBase
FMulSmall(a, k) ==
    IF a.kind = "nan" \/ (a.kind = "inf" /\ k = 0) THEN NaN
    ELSE IF a.kind = "inf" THEN a
    ELSE Round(a.neg, BMulSmall(a.m, k), a.e, FALSE)

\* a / float64(k), for an unsigned integer k <= LimbBase
FDivSmall(a, k) ==
    IF a.kind = "nan" \/ (a = FZero /\ k = 0) THEN NaN
    ELSE IF a.kind = "inf" \/ k = 0 THEN [Inf EXCEPT !.neg = a.neg]
    ELSE LET qr == BDivSmall(BShl(a.m, 2 * LimbBits), k)
         IN  Round(a.neg, qr[1], a.e - 2 * LimbBits, qr[2] # 0)

(***************************************************************************)
(* strconv.ParseUint(s, 16, 64), as called by readTotal.                   *)
(***************************************************************************)
lower(c) == IF (c \div 32) % 2 = 0 THEN c + 32 ELSE c

digitVal(c) ==
    IF 48 <= c /\ c <= 57 THEN c - 48
    ELSE IF 97 <= lower(c) /\ lower(c) <= 122 THEN lower(c) - 97 + 10
    ELSE 255

RECURSIVE parseDigits(_, _, _)
parseDigits(s, i, n) ==
    IF i > Len(s) THEN [val |-> n, err |-> None]
    ELSE LET d == digitVal(s[i]) IN
         IF d >= 16 THEN [val |-> 0, err |-> "syntax"]
         ELSE parseDigits(s, i + 1, n * 16 + d)

ParseUint(s) ==
    IF s = <<>> THEN [val |-> 0, err |-> "syntax"] ELSE parseDigits(s, 1, 0)

(***************************************************************************)
(* readTotal, given the outcome of its single Read: the bytes it returned  *)
(* and whether it returned an error.                                       *)
(***************************************************************************)
readTotal(b, readErr) ==
    IF readErr # None THEN [val |-> 0, err |-> readErr]
    ELSE IF Len(b) # HeaderLen THEN [val |-> 0, err |-> "short"]
    ELSE ParseUint(b)

(***************************************************************************)
(* The inputs the producer and the environment are drawn from.            *)
(***************************************************************************)
Headers ==
    { Zeros(15) \o <<c>> : c \in {48, 50, 51, 98, 103} }
      \cup { Zeros(14) \o <<49, 65>>, Zeros(14) \o <<32, 49>>,
             Zeros(10), <<>> }

Payloads == { [i \in 1..n |-> i] : n \in 0..MaxPayload }

NoReader == [Reader |-> None, Current |-> 0, total |-> 0]

Init ==
    /\ namedPipe \in {"nopipedir", "pipe"}
    /\ markerPresent \in BOOLEAN
    /\ hdr \in Headers
    /\ payload \in Payloads
    /\ prodPc = "init"
    /\ prodSent = 0
    /\ pipe = [buf |-> <<>>, writer |-> FALSE, session |-> None]
    /\ pc = "start"
    /\ exitCode = 0 - 1
    /\ certsDirectory = None
    /\ handles = [header |-> None, payload |-> None]
    /\ rt = [val |-> 0, err |-> None]
    /\ total = 0
    /\ err = None
    /\ promReader = NoReader
    /\ invoked = <<>>
    /\ received = <<>>
    /\ relayEOF = FALSE
    /\ repPc = "off"
    /\ currentProgress = NoProgress
    /\ metric = FZero
    /\ ticks = 0
    /\ adds = <<>>
    /\ currentWrites = <<>>
    /\ samples = <<>>
    /\ opens = 0
    /\ reads = 0

(***************************************************************************)
(* The named pipe.  A read end is present while the program holds an open  *)
(* handle; the buffer is discarded once both ends are closed.              *)
(***************************************************************************)
ReaderOpen(s) == handles[s] = "open" /\ pc # "exited"

WriterPresent(s) == pipe.writer /\ pipe.session = s

closeReadEnd(p) == IF p.writer THEN p ELSE [p EXCEPT !.buf = <<>>]

(***************************************************************************)
(* The producer: a header session followed, once the program has closed    *)
(* the header handle, by a payload session.  Each session is one open of   *)
(* the pipe for writing, any number of writes, and a close.                *)
(***************************************************************************)
SessionData(s) == IF s = "header" THEN hdr ELSE payload

ProducerOpenHeader ==
    /\ prodPc = "init"
    /\ pipe' = [buf |-> <<>>, writer |-> TRUE, session |-> "header"]
    /\ prodPc' = "header"
    /\ prodSent' = 0
    /\ UNCHANGED <<envVars, pc, exitCode, certsDirectory, handles, rt, total,
                   err, relayVars, repVars, opens, reads>>

ProducerWrite ==
    /\ prodPc \in {"header", "payload"}
    /\ ReaderOpen(prodPc)
    /\ prodSent < Len(SessionData(prodPc))
    /\ \E k \in 1..(Len(SessionData(prodPc)) - prodSent) :
          /\ pipe' = [pipe EXCEPT !.buf =
                 @ \o SubSeq(SessionData(prodPc), prodSent + 1, prodSent + k)]
          /\ prodSent' = prodSent + k
    /\ UNCHANGED <<envVars, prodPc, pc, exitCode, certsDirectory, handles, rt,
                   total, err, relayVars, repVars, opens, reads>>

ProducerClose ==
    /\ prodPc \in {"header", "payload"}
    /\ handles[prodPc] # None
    /\ prodSent = Len(SessionData(prodPc))
    /\ pipe' = [pipe EXCEPT !.writer = FALSE,
                            !.buf = IF ReaderOpen(prodPc) THEN @ ELSE <<>>]
    /\ prodPc' = IF prodPc = "header" THEN "headerClosed" ELSE "done"
    /\ UNCHANGED <<envVars, prodSent, pc, exitCode, certsDirectory, handles, rt,
                   total, err, relayVars, repVars, opens, reads>>

ProducerOpenPayload ==
    /\ prodPc = "headerClosed"
    /\ handles.header = "closed"
    /\ pipe' = [buf |-> <<>>, writer |-> TRUE, session |-> "payload"]
    /\ prodPc' = "payload"
    /\ prodSent' = 0
    /\ UNCHANGED <<envVars, pc, exitCode, certsDirectory, handles, rt, total,
                   err, relayVars, repVars, opens, reads>>

(***************************************************************************)
(* main, up to the end of the header phase.                                *)
(***************************************************************************)
Start ==
    /\ pc = "start"
    /\ \/ /\ certsDirectory' = "created"
          /\ pc' = "checkFlag"
          /\ UNCHANGED <<exitCode, err>>
       \/ /\ err' = "tempdir"
          /\ pc' = "exited"
          /\ exitCode' = 2
          /\ UNCHANGED certsDirectory
    /\ UNCHANGED <<envVars, prodVars, pipe, handles, rt, total, relayVars,
                   repVars, opens, reads>>

CheckFlag ==
    /\ pc = "checkFlag"
    /\ IF namedPipe = "nopipedir"
       THEN pc' = "exited" /\ exitCode' = 1
       ELSE pc' = "openHeader" /\ UNCHANGED exitCode
    /\ UNCHANGED <<envVars, prodVars, pipe, certsDirectory, handles, rt, total,
                   err, relayVars, repVars, opens, reads>>

OpenHeader ==
    /\ pc = "openHeader"
    /\ opens' = opens + 1
    /\ \/ /\ WriterPresent("header")
          /\ handles' = [handles EXCEPT !.header = "open"]
          /\ pc' = "readTotal"
          /\ UNCHANGED rt
       \/ /\ rt' = [val |-> 0, err |-> "open"]
          /\ pc' = "collectReturn"
          /\ UNCHANGED handles
    /\ UNCHANGED <<envVars, prodVars, pipe, exitCode, certsDirectory, total,
                   err, relayVars, repVars, reads>>

ReadTotal ==
    /\ pc = "readTotal"
    /\ handles.header = "open"
    /\ reads' = reads + 1
    /\ \/ /\ pipe.buf # <<>>
          /\ LET n == Min(Len(pipe.buf), HeaderLen) IN
                /\ rt' = readTotal(Take(pipe.buf, n), None)
                /\ pipe' = [pipe EXCEPT !.buf = Drop(@, n)]
       \/ /\ pipe.buf = <<>>
          /\ ~pipe.writer
          /\ rt' = readTotal(<<>>, "EOF")
          /\ UNCHANGED pipe
    /\ pc' = "collectReturn"
    /\ UNCHANGED <<envVars, prodVars, exitCode, certsDirectory, handles, total,
                   err, relayVars, repVars, opens>>

collectTotalSizeDeferKeep(h) == h

collectTotalSizeDefer(h) ==
    IF h.header = "open" THEN [h EXCEPT !.header = "closed"] ELSE h

CollectReturn ==
    /\ pc = "collectReturn"
    /\ handles' = collectTotalSizeDefer(handles)
    /\ pipe' = IF handles'.header = "open" THEN pipe ELSE closeReadEnd(pipe)
    /\ total' = rt.val
    /\ err' = rt.err
    /\ pc' = "checkHeader"
    /\ UNCHANGED <<envVars, prodVars, exitCode, certsDirectory, rt, relayVars,
                   repVars, opens, reads>>

headerFatalNever(e) == FALSE

headerFatal(e) == e # None

CheckHeader ==
    /\ pc = "checkHeader"
    /\ IF headerFatal(err)
       THEN pc' = "exited" /\ exitCode' = 1
       ELSE pc' = "openPayload" /\ UNCHANGED exitCode
    /\ UNCHANGED <<envVars, prodVars, pipe, certsDirectory, handles, rt, total,
                   err, relayVars, repVars, opens, reads>>

(***************************************************************************)
(* main, payload phase.                                                    *)
(***************************************************************************)
newPromReaderPreset(out, t) == [Reader |-> out, Current |-> t, total |-> t]

newPromReader(out, t) == [Reader |-> out, Current |-> 0, total |-> t]

OpenPayload ==
    /\ pc = "openPayload"
    /\ opens' = opens + 1
    /\ \/ /\ WriterPresent("payload")
          /\ handles' = [handles EXCEPT !.payload = "open"]
          /\ promReader' = newPromReader("payload", total)
          /\ currentWrites' = <<promReader'.Current>>
          /\ pc' = "startReporter"
          /\ UNCHANGED <<err, exitCode>>
       \/ /\ err' = "open"
          /\ pc' = "exited"
          /\ exitCode' = 1
          /\ UNCHANGED <<handles, promReader, currentWrites>>
    /\ UNCHANGED <<envVars, prodVars, pipe, certsDirectory, rt, total, invoked,
                   received, relayEOF, repVars, reads>>

\* `go f()` returns at once; a plain call of the endless loop never returns
plainCall(next) == "timedUpdateProgress"

goStatement(next) == next

goTimedUpdateProgressSkipped(rp) == rp

goTimedUpdateProgress(rp) == "sleep"

StartReporter ==
    /\ pc = "startReporter"
    /\ repPc' = goTimedUpdateProgress(repPc)
    /\ pc' = goStatement("dispatch")
    /\ UNCHANGED <<envVars, prodVars, pipe, exitCode, certsDirectory, handles,
                   rt, total, err, relayVars, currentProgress, metric, ticks,
                   adds, samples, opens, reads>>

volumeModeSwapped(present) == IF ~present THEN "Block" ELSE "Filesystem"

volumeMode(present) == IF ~present THEN "Filesystem" ELSE "Block"

Dispatch ==
    /\ pc = "dispatch"
    /\ invoked' = Append(invoked,
                         IF volumeMode(markerPresent) = "Block"
                         THEN "StreamDataToFile" ELSE "UnArchiveTar")
    /\ pc' = "relay"
    /\ UNCHANGED <<envVars, prodVars, pipe, exitCode, certsDirectory, handles,
                   rt, total, err, promReader, currentWrites, received,
                   relayEOF, repVars, opens, reads>>

(***************************************************************************)
(* The writer (util.StreamDataToFile or util.UnArchiveTar) reading from    *)
(* promReader until end-of-stream.  Each Read goes through                 *)
(* util.CountingReader, which adds the number of bytes read to Current.    *)
(***************************************************************************)
CountingRead(r, n) == [r EXCEPT !.Current = @ + n]

WriterRead ==
    /\ pc = "relay"
    /\ handles[promReader.Reader] = "open"
    /\ reads' = reads + 1
    /\ \/ /\ pipe.buf # <<>>
          /\ LET n == Min(Len(pipe.buf), ChunkLen) IN
                /\ received' = received \o Take(pipe.buf, n)
                /\ promReader' = CountingRead(promReader, n)
                /\ currentWrites' = Append(currentWrites, promReader'.Current)
                /\ pipe' = [pipe EXCEPT !.buf = Drop(@, n)]
          /\ UNCHANGED <<pc, err, relayEOF>>
       \/ /\ pipe.buf = <<>>
          /\ ~pipe.writer
          /\ relayEOF' = TRUE
          /\ err' = None
          /\ pc' = "checkWriter"
          /\ UNCHANGED <<pipe, promReader, currentWrites, received>>
       \/ /\ err' = "read"
          /\ pc' = "checkWriter"
          /\ UNCHANGED <<pipe, promReader, currentWrites, received, relayEOF>>
    /\ UNCHANGED <<envVars, prodVars, exitCode, certsDirectory, handles, rt,
                   total, invoked, repVars, opens>>

WriterFail ==
    /\ pc = "relay"
    /\ err' = "write"
    /\ pc' = "checkWriter"
    /\ UNCHANGED <<envVars, prodVars, pipe, exitCode, certsDirectory, handles,
                   rt, total, relayVars, repVars, opens, reads>>

writerFatalNever(e) == FALSE

writerFatal(e) == e # None

CheckWriter ==
    /\ pc = "checkWriter"
    /\ IF writerFatal(err)
       THEN /\ exitCode' = 1
            /\ UNCHANGED <<handles, certsDirectory, pipe>>
       ELSE /\ exitCode' = 0
            /\ handles' = [handles EXCEPT !.payload = "closed"]
            /\ certsDirectory' = "removed"
            /\ pipe' = closeReadEnd(pipe)
    /\ pc' = "exited"
    /\ UNCHANGED <<envVars, prodVars, rt, total, err, relayVars, repVars,
                   opens, reads>>

(***************************************************************************)
(* The progress goroutine.  A tick samples Current and computes the        *)
(* percentage (TickSample), then reads the counter and adds the difference *)
(* (TickPublish).  The goroutine stops when the process exits.             *)
(***************************************************************************)
\* the goroutine of line 91 ends with the process: nothing waits for it
goroutineRunsOn(p) == TRUE

goroutineRuns(p) == p # "exited"

progressEnabledAlways(t) == TRUE

progressEnabled(t) == t > 0

PerMille(current, t) == FMulSmall(FDivSmall(FromUint(current), t), 1000)

Percent(current, t) == FMulSmall(FDivSmall(FromUint(current), t), 100)

shouldPublishOrEqual(cur, value) == FGE(cur, value)

shouldPublish(cur, value) == FGT(cur, value)

(***************************************************************************)
(* The load of r.Current in updateProgress is a plain read of a word that  *)
(* the main goroutine updates concurrently.  It observes one of the values *)
(* stored so far: the one stored at construction, which happens before the *)
(* go statement, or any later one.  loadCurrent gives the indices into     *)
(* currentWrites the load may observe.                                     *)
(***************************************************************************)
loadCurrent(writes) == 1..Len(writes)

TickSample ==
    /\ repPc = "sleep"
    /\ goroutineRuns(pc)
    /\ ticks < MaxTicks
    /\ IF progressEnabled(promReader.total)
       THEN /\ \E i \in loadCurrent(currentWrites) :
                  /\ currentProgress' =
                         Percent(currentWrites[i], promReader.total)
                  /\ samples' = Append(samples,
                         [value |-> currentWrites[i],
                          from |-> IF samples = <<>> THEN 1
                                   ELSE samples[Len(samples)].to,
                          to |-> Len(currentWrites)])
            /\ repPc' = "publish"
            /\ UNCHANGED ticks
       ELSE /\ ticks' = ticks + 1
            /\ UNCHANGED <<currentProgress, repPc, samples>>
    /\ UNCHANGED <<envVars, prodVars, pipe, pc, exitCode, certsDirectory,
                   handles, rt, total, err, relayVars, metric, adds, opens,
                   reads>>

progressDeltaWhole(cur, value) == cur

progressDelta(cur, value) == FSub(cur, value)

updateProgressReaderReset(r) == [r EXCEPT !.Current = 0]

updateProgressReader(r) == r

TickPublish ==
    /\ repPc = "publish"
    /\ goroutineRuns(pc)
    /\ IF shouldPublish(currentProgress, metric)
       THEN /\ metric' = FAdd(metric, progressDelta(currentProgress, metric))
            /\ adds' = Append(adds, progressDelta(currentProgress, metric))
       ELSE UNCHANGED <<metric, adds>>
    /\ currentProgress' = NoProgress
    /\ ticks' = ticks + 1
    /\ repPc' = "sleep"
    /\ promReader' = updateProgressReader(promReader)
    /\ UNCHANGED samples
    /\ UNCHANGED <<envVars, prodVars, pipe, pc, exitCode, certsDirectory,
                   handles, rt, total, err, currentWrites, invoked, received,
                   relayEOF, opens, reads>>

Next ==
    \/ ProducerOpenHeader
    \/ ProducerWrite
    \/ ProducerClose
    \/ ProducerOpenPayload
    \/ Start
    \/ CheckFlag
    \/ OpenHeader
    \/ ReadTotal
    \/ CollectReturn
    \/ CheckHeader
    \/ OpenPayload
    \/ StartReporter
    \/ Dispatch
    \/ WriterRead
    \/ WriterFail
    \/ CheckWriter
    \/ TickSample
    \/ TickPublish

Spec == Init /\ [][Next]_vars

(***************************************************************************)
(* Fair scheduling.  The main goroutine takes a step that stays enabled,   *)
(* and so does the producer (it writes and closes each session); nothing   *)
(* is assumed of the progress goroutine, and no I/O fault is ever forced.  *)
(***************************************************************************)
Producer ==
    ProducerOpenHeader \/ ProducerWrite \/ ProducerClose \/ ProducerOpenPayload

Main ==
    \/ Start \/ CheckFlag \/ OpenHeader \/ ReadTotal \/ CollectReturn
    \/ CheckHeader \/ OpenPayload \/ StartReporter \/ Dispatch \/ WriterRead
    \/ CheckWriter

FaultStep ==
    \/ pc = "start" /\ err' = "tempdir"
    \/ pc = "openHeader" /\ rt'.err = "open"
    \/ pc = "openPayload" /\ err' = "open"
    \/ pc = "relay" /\ err' \in {"read", "write"}

MainFair == Main /\ ~FaultStep

FairSpec == Spec /\ WF_vars(MainFair) /\ WF_vars(Producer)

\* the producer gives up fairness: it may stop at any point
MainFairSpec == Spec /\ WF_vars(MainFair)

(***************************************************************************)
(* Properties.                                                             *)
(***************************************************************************)
HeaderPhaseOver ==
    pc \notin {"start", "checkFlag", "openHeader", "readTotal", "collectReturn"}

HeaderWasRead == reads >= 1

\* C1: the published metric never decreases from one state to the next; a
\* step that calls Add passes a strictly positive delta and raises the metric
\* by it, and every other step leaves the metric unchanged.
C1_MetricNeverDecreases ==
    [][/\ FGE(metric', metric)
       /\ IF adds' # adds
          THEN /\ Len(adds') = Len(adds) + 1
               /\ FGT(adds'[Len(adds')], FZero)
               /\ metric' = FAdd(metric, adds'[Len(adds')])
               /\ FGT(metric', metric)
          ELSE metric' = metric]_vars

\* C1 witness: three ticks have completed, two of them published a delta and
\* one left the metric unchanged.
C1_Witness == ticks = 3 /\ Len(adds) = 2 /\ FGT(metric, FZero)

\* C2: when the header parsed to a total of 0, no percentage is computed and
\* nothing is ever added to the metric, which stays at its initial value.
C2_ZeroTotalNeverPublishes ==
    (HeaderPhaseOver /\ rt.err = None /\ rt.val = 0)
        => /\ metric = FZero
           /\ adds = <<>>
           /\ currentProgress = NoProgress
           /\ repPc # "publish"

\* C2 witness: total is 0, payload bytes have been relayed and ticks have run.
C2_Witness ==
    /\ rt.err = None /\ promReader.Reader # None /\ promReader.total = 0
    /\ promReader.Current > 0
    /\ ticks >= 2

\* C3: the header handle is closed when collectTotalSize has returned, the
\* payload handle is only ever open after the header handle was closed, the
\* two are never open together, and the relay reads from the payload handle.
C3_SeparateOpenCloseCycles ==
    /\ HeaderPhaseOver => handles.header # "open"
    /\ handles.payload # None => handles.header = "closed"
    /\ ~(handles.header = "open" /\ handles.payload = "open")
    /\ promReader.Reader \in {None, "payload"}
    /\ opens <= 2

\* C3 witness: the payload handle is open and being read, the header handle
\* is closed.
C3_Witness ==
    /\ handles.header = "closed" /\ handles.payload = "open"
    /\ opens = 2 /\ received # <<>>

\* C4: in every state where the process has exited with code 0 or 1, the
\* temporary directory has been removed and no handle is left open.
C4_ReleasedOnEveryExit ==
    (pc = "exited" /\ exitCode \in {0, 1})
        => /\ certsDirectory = "removed"
           /\ handles.header # "open"
           /\ handles.payload # "open"

\* C5: readTotal fails with the short-header error only if the header session
\* holds fewer than 16 bytes; when the producer has written all 16 bytes of
\* the header and closed the session, readTotal has read those 16 bytes and
\* returned their parse.
C5_ShortHeaderOnlyAtEndOfStream ==
    HeaderWasRead =>
        /\ rt.err = "short" => Len(hdr) < HeaderLen
        /\ (Len(hdr) = HeaderLen /\ prodPc \in {"headerClosed", "payload", "done"})
               => rt = ParseUint(hdr)

(***************************************************************************)
(* The value of a hexadecimal text, by table lookup of each digit.         *)
(***************************************************************************)
HexLower == <<48, 49, 50, 51, 52, 53, 54, 55, 56, 57, 97, 98, 99, 100, 101, 102>>

HexUpper == <<48, 49, 50, 51, 52, 53, 54, 55, 56, 57, 65, 66, 67, 68, 69, 70>>

IsHexDigit(c) == \E v \in 1..16 : HexLower[v] = c \/ HexUpper[v] = c

HexDigitValue(c) == (CHOOSE v \in 1..16 : HexLower[v] = c \/ HexUpper[v] = c) - 1

AllHex(s) == \A i \in 1..Len(s) : IsHexDigit(s[i])

RECURSIVE HexValue(_)
HexValue(s) ==
    IF Len(s) = 0 THEN 0
    ELSE HexValue(Take(s, Len(s) - 1)) * 16 + HexDigitValue(s[Len(s)])

\* C6: once the header has been read, a 16-byte hexadecimal header has been
\* parsed to its integer value, a header shorter than 16 bytes has failed
\* with the short-header error, a 16-byte header with a non-hexadecimal
\* character has failed with the malformed-header error, and every failure
\* returns size 0.
C6_HeaderParsing ==
    (HeaderWasRead /\ pc # "readTotal") =>
        /\ (Len(hdr) = HeaderLen /\ AllHex(hdr))
               => (rt.err = None /\ rt.val = HexValue(hdr))
        /\ Len(hdr) < HeaderLen => rt.err = "short"
        /\ (Len(hdr) = HeaderLen /\ ~AllHex(hdr)) => rt.err = "syntax"
        /\ rt.err # None => rt.val = 0

\* C7: at most one writer is invoked; once main has dispatched exactly one
\* has been invoked; it is the block-device writer when the marker path is
\* present and the archive extractor when it is absent.
C7_DestinationSelection ==
    /\ Len(invoked) <= 1
    /\ (pc \in {"relay", "checkWriter"} \/ (pc = "exited" /\ exitCode = 0))
           => Len(invoked) = 1
    /\ \A i \in 1..Len(invoked) :
           invoked[i] = IF markerPresent THEN "StreamDataToFile"
                                         ELSE "UnArchiveTar"

\* C7 witness: the marker is present and the block-device writer has been
\* invoked and has received payload bytes.
C7_Witness ==
    markerPresent /\ invoked = <<"StreamDataToFile">> /\ received # <<>>

FatalSeen ==
    \/ /\ pc \notin {"start", "checkFlag"}
       /\ certsDirectory # None
       /\ namedPipe = "nopipedir"
    \/ rt.err \in {"open", "EOF", "short", "syntax"}
    \/ err \in {"open", "EOF", "short", "syntax", "read", "write"}

\* C8: the exit code is 0 only if the header was read and parsed, the payload
\* handle was opened and the invoked writer returned no error; after a
\* missing flag, a header error, an open error or a read or write error of
\* the relay, main is at the check that exits or has exited, with code 1.
C8_ExitCodes ==
    /\ exitCode = 0 =>
           /\ pc = "exited"
           /\ namedPipe # "nopipedir"
           /\ HeaderWasRead /\ rt.err = None /\ total = rt.val
           /\ handles.payload # None
           /\ Len(invoked) = 1
           /\ err = None
    /\ FatalSeen =>
           /\ pc \in {"collectReturn", "checkHeader", "checkWriter", "exited"}
           /\ pc = "exited" => exitCode = 1

\* C8 witness: the block-device write failed after part of the payload was
\* relayed and the process exited with code 1.
C8_Witness ==
    /\ pc = "exited" /\ exitCode = 1 /\ err = "write"
    /\ markerPresent /\ received # <<>> /\ Len(received) < Len(payload)

ErrorSeen == FatalSeen \/ err # None \/ pc = "exited"

\* C9: once an error has occurred the program makes no further open, no
\* further read and no writer invocation; with a missing flag the pipe is
\* never opened; after an error of the header phase the payload handle is
\* never opened, the progress goroutine is never started, nothing is
\* published and no writer is invoked.
C9_ErrorsAreTerminal ==
    /\ [](namedPipe = "nopipedir" =>
              (opens = 0 /\ reads = 0 /\ handles.header = None
                         /\ handles.payload = None))
    /\ [](rt.err # None =>
              /\ opens = 1 /\ reads <= 1
              /\ handles.payload = None
              /\ promReader = NoReader
              /\ repPc = "off" /\ ticks = 0
              /\ metric = FZero /\ adds = <<>>
              /\ invoked = <<>>)
    /\ [][ErrorSeen => (opens' = opens /\ reads' = reads /\ invoked' = invoked
                          /\ (handles'.header = "open" => handles.header = "open")
                          /\ (handles'.payload = "open" => handles.payload = "open"))]_vars

\* C9 witness: the header read came up short, the process has exited, and the
\* producer is still there.
C9_Witness ==
    /\ pc = "exited" /\ rt.err = "short" /\ exitCode = 1
    /\ prodPc \in {"header", "headerClosed"}

\* C10: Current always equals the number of bytes Read has returned to the
\* writer, it never decreases, and once the relay has hit end-of-stream it
\* equals the number of bytes the payload session yielded.
C10_CounterCountsRelayedBytes ==
    /\ [](promReader.Current = Len(received))
    /\ [](relayEOF => promReader.Current = Len(payload))
    /\ [][promReader'.Current >= promReader.Current]_vars

\* C10 witness: the relay has finished a payload of several reads.
C10_Witness ==
    relayEOF /\ promReader.Current > ChunkLen /\ pc = "exited" /\ exitCode = 0

IsPrefix(s, t) == Len(s) <= Len(t) /\ s = Take(t, Len(s))

NoIOFault == rt.err # "open" /\ err \notin {"tempdir", "open", "read", "write"}

\* C11: the bytes returned to the writer are always a prefix of the payload;
\* and when the producer's header is 16 hexadecimal digits declaring N, its
\* payload has exactly N bytes, the marker is absent and no open, read or
\* write fails, the process exits 0 after the archive extractor has received
\* exactly the payload, in order.
C11_ArchiveReceivesPayload ==
    /\ IsPrefix(received, payload)
    /\ (/\ pc = "exited"
        /\ namedPipe = "pipe"
        /\ ~markerPresent
        /\ Len(hdr) = HeaderLen /\ AllHex(hdr)
        /\ Len(payload) = HexValue(hdr)
        /\ NoIOFault)
           => /\ exitCode = 0
              /\ invoked = <<"UnArchiveTar">>
              /\ received = payload
              /\ relayEOF

PcRank(p) ==
    CASE p = "start" -> 0
      [] p = "checkFlag" -> 1
      [] p = "openHeader" -> 2
      [] p = "readTotal" -> 3
      [] p = "collectReturn" -> 4
      [] p = "checkHeader" -> 5
      [] p = "openPayload" -> 6
      [] p = "startReporter" -> 7
      [] p = "dispatch" -> 8
      [] p = "relay" -> 9
      [] p = "checkWriter" -> 10
      [] p = "exited" -> 11

\* C12: main moves through its steps in order; the progress goroutine is
\* started only by main's go statement, once, after the header was parsed and
\* the payload handle opened, and before the dispatch and any payload read;
\* no tick and no publication happens while it is not started.
C12_OrchestratorOrder ==
    /\ [](repPc # "off" =>
              /\ HeaderWasRead /\ rt.err = None
              /\ handles.header = "closed" /\ handles.payload # None
              /\ promReader.Reader = "payload" /\ promReader.total = rt.val
              /\ PcRank(pc) >= 8)
    /\ [](repPc = "off" =>
              /\ ticks = 0 /\ adds = <<>> /\ currentProgress = NoProgress
              /\ metric = FZero
              /\ invoked = <<>> /\ received = <<>> /\ reads <= 1
              /\ PcRank(pc) <= 7 \/ pc = "exited")
    /\ [][PcRank(pc') >= PcRank(pc)]_vars
    /\ [][(repPc = "off" /\ repPc' # "off")
              => (pc = "startReporter" /\ pc' = "dispatch")]_vars
    /\ [][repPc # "off" => repPc' # "off"]_vars

\* C12 witness: the goroutine was started, ticked during the relay, and the
\* process has exited 0.
C12_Witness ==
    /\ repPc # "off" /\ ticks >= 1 /\ adds # <<>>
    /\ received # <<>> /\ pc = "exited" /\ exitCode = 0

\* C13: every value updateProgress loads from Current is one Current held
\* between the previous load and this one, and successive loads never
\* decrease.
C13_SamplesAreCurrent ==
    /\ \A k \in 1..Len(samples) :
           \E i \in samples[k].from..samples[k].to :
               samples[k].value = currentWrites[i]
    /\ \A k \in 1..(Len(samples) - 1) :
           samples[k].value <= samples[k + 1].value

\* C14: a step of the progress goroutine leaves the reader (Current and
\* total), main's total, the pipe, the handles, the bytes returned to the
\* writer, the invoked writer, the marker and main's position unchanged; and
\* Current changes only when main constructs the reader or a Read of the
\* relay returns bytes.
C14_TickChangesOnlyTheMetric ==
    /\ [][(repPc # "off" /\ repVars' # repVars) =>
              /\ promReader' = promReader
              /\ currentWrites' = currentWrites
              /\ total' = total
              /\ pipe' = pipe
              /\ handles' = handles
              /\ received' = received
              /\ relayEOF' = relayEOF
              /\ invoked' = invoked
              /\ markerPresent' = markerPresent
              /\ reads' = reads /\ opens' = opens
              /\ pc' = pc /\ exitCode' = exitCode /\ err' = err]_vars
    /\ [][promReader' # promReader =>
              \/ pc = "openPayload" /\ pc' = "startReporter"
              \/ /\ pc = "relay" /\ reads' = reads + 1
                 /\ promReader'.Current =
                        promReader.Current + (Len(received') - Len(received))
                 /\ repVars' = repVars]_vars

\* C14 witness: a tick has published during the relay, after bytes were
\* returned to the writer.
C14_Witness ==
    /\ pc = "relay" /\ received # <<>> /\ adds # <<>>
    /\ promReader.Current = Len(received)

FMax(a, b) == IF FGT(b, a) THEN b ELSE a

RECURSIVE LargestPercent(_, _, _)
LargestPercent(smp, n, t) ==
    IF n = 0 THEN FZero
    ELSE FMax(LargestPercent(smp, n - 1, t), Percent(smp[n].value, t))

PublishedSamples == Len(samples) - (IF repPc = "publish" THEN 1 ELSE 0)

\* C15: with total > 0, a completed tick leaves the metric at the maximum of
\* its previous value and the percentage computed at that tick; so the metric
\* equals the largest percentage computed by the completed ticks, and it is
\* never greater than the percentage of the counter's present value.
C15_MetricIsLargestSample ==
    /\ [][(repPc = "publish" /\ ticks' = ticks + 1)
              => metric' = FMax(metric, currentProgress)]_vars
    /\ [](promReader.total > 0 =>
              /\ metric = LargestPercent(samples, PublishedSamples,
                                         promReader.total)
              /\ FGE(Percent(promReader.Current, promReader.total), metric)
              /\ repPc = "publish" =>
                     currentProgress = Percent(samples[Len(samples)].value,
                                               promReader.total))

\* C16: no final tick is run at exit: the step that ends the process, and
\* every step after it, leaves the metric, the Add calls, the samples and the
\* tick count as they were.
C16_NoFinalTick ==
    [][pc' = "exited" =>
           /\ metric' = metric /\ adds' = adds
           /\ samples' = samples /\ ticks' = ticks]_vars

\* C16 witness: the whole payload, as long as the header declared, was
\* relayed and the process exited 0 while the metric, published by an earlier
\* tick, is below 100.
C16_Witness ==
    /\ pc = "exited" /\ exitCode = 0
    /\ promReader.total > 0 /\ Len(payload) = promReader.total
    /\ received = payload /\ promReader.Current = promReader.total
    /\ adds # <<>> /\ FGT(OneHundred, metric)

\* main waits in a channel operation: an open without a writer, or a read of
\* an empty pipe whose writer has not closed
Blocked ==
    \/ pc = "openHeader" /\ ~WriterPresent("header")
    \/ pc = "openPayload" /\ ~WriterPresent("payload")
    \/ pc \in {"readTotal", "relay"} /\ pipe.buf = <<>> /\ pipe.writer

\* C17: with a producer that writes and closes both sessions and fair
\* scheduling, the process eventually exits, whatever the tick loop does; no
\* tick occurs after the exit; and while main waits in a channel operation
\* it has no step of its own to take (only the producer can release it).
C17_EventuallyExits ==
    /\ <>(pc = "exited")
    /\ [][pc = "exited" => repVars' = repVars]_vars
    /\ [](Blocked => ~ENABLED MainFair)

\* C17 witness: the producer closed both sessions, the writer returned at
\* end-of-stream and the process exited while the tick loop had run.
C17_Witness ==
    /\ pc = "exited" /\ exitCode = 0 /\ prodPc = "done" /\ relayEOF
    /\ ticks >= 1 /\ repPc # "off"

=============================================================================
